---- MODULE Spec2Model ----
(***************************************************************************)
(* Accounts Receivable Collection Manager.                                 *)
(*                                                                         *)
(* Part 1: the collection workflow engine (ar_workflow_engine.py):         *)
(*   trigger_workflows, execute_pending_workflows and the ledger rows      *)
(*   they read.  Specification Spec.                                       *)
(* Part 2: the payment promise tracker (ar_promise_tracker.py):            *)
(*   create_payment_promise, update_promise_status,                        *)
(*   process_overdue_promises.  Specification PSpec.                       *)
(***************************************************************************)
EXTENDS Integers, Sequences, FiniteSets, Bags, TLC

VARIABLES
    now,         \* wall clock of the engine, in ticks (resolution of the id timestamp)
    invoices,    \* invoices table: invoice_id -> row
    workflows,   \* collection_workflows + workflow_steps: workflow_id -> definition
    instances,   \* workflow_instances table: instance_id -> row
    execLog,     \* workflow_execution_log table: bag of rows
    activities,  \* collection_activities and credit_history rows written by the engine: bag
    creditHold,  \* customers with is_credit_hold = TRUE
    hist,        \* history: what the last engine call did
    procs,       \* engine calls in progress: worker -> its position and local variables
    today,       \* calendar date of the promise tracker, in days
    promises,    \* payment_promises table: sequence of rows, promise_id = index
    payments,    \* payments joined with payment_applications: bag of rows
    pactivities, \* collection_activities rows written by the promise tracker: bag
    collection,  \* invoices.collection_status: invoice_id -> status
    customers,   \* customers table: customer_id -> the columns the scorer reads
    contactLog,  \* collection_activities of the last 60 days, by customer, as the scorer counts them
    scored       \* the last call of the scorer: its argument and the value it returned

wfvars == <<now, invoices, workflows, instances, execLog, activities, creditHold, hist, procs>>
pvars  == <<today, promises, payments, pactivities, collection>>
svars  == <<customers, contactLog, scored>>
vars   == <<now, invoices, workflows, instances, execLog, activities, creditHold, hist, procs,
            today, promises, payments, pactivities, collection, customers, contactLog, scored>>

(***************************************************************************)
(* Bounds of the model.                                                    *)
(***************************************************************************)
MaxTime == 2
MaxInstances == 3
TicksPerDay == 2
MaxDay == 7
MaxCreateDay == 0
MaxPromises == 2
MaxPayments == 2
MaxRows == 4
MaxAhead == 2

CustomerIds == {1, 2}
InvoiceIds  == {1, 2}
WorkflowIds == {1, 2}

NoDate == -1

\* A customers row.  Scores are kept in hundredths of a point (payment
\* reliability 85.0 is 8500), amounts in currency units, dates as day numbers.
Customer(ty, limit, terms, avg, rel, sales, since) ==
    [customer_type |-> ty, credit_limit |-> limit, payment_terms_days |-> terms,
     avg_days_to_pay |-> avg, payment_reliability_score |-> rel,
     total_sales_lifetime |-> sales, customer_since |-> since,
     collection_priority |-> "NORMAL"]

\* what the 60-day aggregate over collection_activities returns for a customer
Contacts(total, no_answer, promise, dispute, last) ==
    [total_activities |-> total, no_answer_count |-> no_answer, promise_count |-> promise,
     dispute_count |-> dispute, last_activity_date |-> last]

NoContacts == Contacts(0, 0, 0, 0, NoDate)

\* a customer as the data generator writes one
DefaultCustomer(c) ==
    Customer(IF c = 1 THEN "REGULAR" ELSE "VIP", 25000, 30, 35, 8500, 50000, -400)

NoScore == [arg |-> 0, result |-> <<>>]

\* the scorer has not been called
SIdle ==
    /\ customers = [c \in CustomerIds |-> DefaultCustomer(c)]
    /\ contactLog = [c \in CustomerIds |-> NoContacts]
    /\ scored = NoScore

(***************************************************************************)
(* Part 1.  Workflow engine.                                               *)
(***************************************************************************)

\* WorkflowAction dataclass: action_type and delay_days
Step(a, d) == [action_type |-> a, delay_days |-> d]

\* Workflow definitions the repository creates.
TestExecutionWorkflow ==
    [name |-> "Test Execution", days_past_due_trigger |-> 1, amount_threshold |-> 0,
     customer_type_filter |-> "", execution_order |-> 0,
     steps |-> <<Step("EMAIL_REMINDER", 0)>>]

StandardCollectionWorkflow ==
    [name |-> "Standard Collection Workflow", days_past_due_trigger |-> 31,
     amount_threshold |-> 500, customer_type_filter |-> "", execution_order |-> 0,
     steps |-> <<Step("PHONE_CALL", 0), Step("DUNNING_LETTER", 7), Step("PHONE_CALL", 14)>>]

\* A row of collection_workflows written by the data generator: it has an
\* execution_order and no rows in workflow_steps.
FriendlyReminderWorkflow ==
    [name |-> "30-Day Friendly Reminder", days_past_due_trigger |-> 30,
     amount_threshold |-> 100, customer_type_filter |-> "", execution_order |-> 1,
     steps |-> <<>>]

LegalReferralWorkflow ==
    [name |-> "Legal Referral Workflow", days_past_due_trigger |-> 90,
     amount_threshold |-> 2000, customer_type_filter |-> "", execution_order |-> 0,
     steps |-> <<Step("ESCALATION", 0), Step("LEGAL_REFERRAL", 7)>>]

\* Definitions a caller creates with create_workflow_definition for the two
\* action types no default workflow starts with.
PaymentPlanWorkflow ==
    [name |-> "Payment Plan", days_past_due_trigger |-> 1, amount_threshold |-> 1000,
     customer_type_filter |-> "", execution_order |-> 0,
     steps |-> <<Step("PAYMENT_PLAN", 0)>>]

CreditHoldWorkflow ==
    [name |-> "Credit Hold", days_past_due_trigger |-> 1, amount_threshold |-> 0,
     customer_type_filter |-> "", execution_order |-> 0,
     steps |-> <<Step("CREDIT_HOLD", 0)>>]

\* the definitions present in one database
WorkflowSetups ==
    { (1 :> TestExecutionWorkflow) @@ (2 :> StandardCollectionWorkflow),
      (1 :> StandardCollectionWorkflow) @@ (2 :> FriendlyReminderWorkflow),
      (1 :> LegalReferralWorkflow) @@ (2 :> StandardCollectionWorkflow) }

\* Rows of the invoices table the engine reads.
Invoice(c, st, dpd, out) ==
    [customer_id |-> c, status |-> st, days_past_due |-> dpd, outstanding_amount |-> out,
     collection_priority_score |-> 0]

InvoiceProfiles ==
    { <<"OPEN", 45, 5000>>, <<"OPEN", 45, 300>>, <<"OPEN", 0, 5000>> }

\* customers table: customer_type
CustomerType(c) == IF c = 1 THEN "REGULAR" ELSE "VIP"

\* instance_id = f"WF_{workflow_id}_{customer_id}_{now:%Y%m%d%H%M%S}"
InstanceId(w, c, t) == <<w, c, t>>

NewInstance(w, c, i, t) ==
    [workflow_id |-> w, customer_id |-> c, invoice_id |-> i, status |-> "PENDING",
     current_step |-> 0, scheduled_date |-> t, completed_date |-> NoDate,
     failure_reason |-> "", retry_count |-> 0]

Outstanding == {"PENDING", "ACTIVE"}
Terminal == {"COMPLETED", "FAILED", "CANCELLED"}

NoInvoice == 0

(* ----- trigger_workflows ------------------------------------------------ *)

\* the trigger query without its sub-select
InActiveWorkflowDropped(insts, i) == FALSE

\* the sub-select with status = 'ACTIVE' only
InActiveWorkflowActiveOnly(insts, i) ==
    \E id \in DOMAIN insts :
        /\ insts[id].status = "ACTIVE"
        /\ insts[id].invoice_id # NoInvoice
        /\ insts[id].invoice_id = i

\* the sub-select with status = 'PENDING' only
InActiveWorkflowPendingOnly(insts, i) ==
    \E id \in DOMAIN insts :
        /\ insts[id].status = "PENDING"
        /\ insts[id].invoice_id # NoInvoice
        /\ insts[id].invoice_id = i

\* the sub-select of the trigger query: invoices already in active workflows
InActiveWorkflow(insts, i) ==
    \E id \in DOMAIN insts :
        /\ insts[id].status \in {"PENDING", "ACTIVE"}
        /\ insts[id].invoice_id # NoInvoice
        /\ insts[id].invoice_id = i

\* the WHERE clause of the trigger query without the sub-select
TriggerMatches(w, i) ==
    /\ invoices[i].status = "OPEN"
    /\ invoices[i].days_past_due >= workflows[w].days_past_due_trigger
    /\ invoices[i].outstanding_amount >= workflows[w].amount_threshold
    /\ (workflows[w].customer_type_filter # ""
          => CustomerType(invoices[i].customer_id) = workflows[w].customer_type_filter)

\* matching_invoices of one workflow, read against the current instances table
MatchingInvoices(w, insts) ==
    {i \in InvoiceIds : TriggerMatches(w, i) /\ ~InActiveWorkflow(insts, i)}

\* _create_workflow_instance: the INSERT fails on a duplicate primary key
\* (sqlite3.IntegrityError), which nothing in trigger_workflows catches.
CreateWorkflowInstance(w, i, t, s) ==
    LET c  == invoices[i].customer_id
        id == InstanceId(w, c, t)
    IN  IF id \in DOMAIN s.insts
        THEN [s EXCEPT !.t = t, !.raised = TRUE]
        ELSE [s EXCEPT !.t = t,
                       !.insts = s.insts @@ (id :> NewInstance(w, c, i, t)),
                       !.created = Append(s.created, id)]

\* the loop over matching_invoices: the rows come in an unspecified order and
\* the clock may move on between two inserts
RECURSIVE CreateEach(_, _, _)
CreateEach(w, todo, s) ==
    IF todo = {} \/ s.raised THEN {s}
    ELSE UNION { UNION { CreateEach(w, todo \ {i}, CreateWorkflowInstance(w, i, t, s))
                         : t \in {u \in {s.t, s.t + 1} : u <= MaxTime} }
                 : i \in todo }

\* the loop over the active workflows
RECURSIVE ScanWorkflows(_, _)
ScanWorkflows(order, s) ==
    IF order = <<>> \/ s.raised THEN {s}
    ELSE UNION { ScanWorkflows(Tail(order), s2)
                 : s2 \in CreateEach(Head(order), MatchingInvoices(Head(order), s.insts), s) }

\* ORDER BY execution_order: rows with equal execution_order come in any order
WorkflowOrders ==
    { o \in [1..Cardinality(WorkflowIds) -> WorkflowIds] :
        /\ \A a, b \in DOMAIN o : a # b => o[a] # o[b]
        /\ \A a, b \in DOMAIN o :
              a < b => workflows[o[a]].execution_order <= workflows[o[b]].execution_order }

OutstandingPairs(insts) ==
    { <<insts[id].workflow_id, insts[id].invoice_id>> :
        id \in {x \in DOMAIN insts : insts[x].status \in Outstanding} }

ScanTriggers ==
    \E order \in WorkflowOrders :
      \E out \in ScanWorkflows(order, [insts |-> instances, t |-> now,
                                       created |-> <<>>, raised |-> FALSE]) :
        /\ Cardinality(DOMAIN out.insts) <= MaxInstances
        /\ instances' = out.insts
        /\ now' = out.t
        /\ hist' = [op |-> "scan",
                    streak |-> IF hist.streak \in {0, 1} THEN hist.streak + 1 ELSE hist.streak]
        /\ UNCHANGED <<invoices, workflows, execLog, activities, creditHold>>
        /\ UNCHANGED <<pvars, procs, svars>>

(* ----- execute_pending_workflows ---------------------------------------- *)

\* a row an action writes; "instance" is not a column: it records which
\* workflow instance the action ran for
Activity(tbl, c, i, ty, id) ==
    [tbl |-> tbl, customer_id |-> c, invoice_id |-> i, activity_type |-> ty, instance |-> id]

\* _execute_action and the action methods it dispatches to: the rows each
\* action commits on its own connection
ExecuteAction(a, c, i, id, s) ==
    CASE a = "EMAIL_REMINDER" ->
           [s EXCEPT !.acts = s.acts (+) SetToBag({Activity("collection_activities", c, i, "EMAIL", id)})]
      [] a = "PHONE_CALL" ->
           [s EXCEPT !.acts = s.acts (+) SetToBag({Activity("collection_activities", c, NoInvoice, "PHONE_CALL", id)})]
      [] a = "DUNNING_LETTER" ->
           [s EXCEPT !.acts = s.acts (+) SetToBag({Activity("collection_activities", c, i, "LETTER", id)})]
      [] a = "CREDIT_HOLD" ->
           [s EXCEPT !.hold = s.hold \cup {c},
                     !.acts = s.acts (+) SetToBag({Activity("credit_history", c, NoInvoice, "CREDIT_HOLD", id)})]
      [] a = "LEGAL_REFERRAL" ->
           [s EXCEPT !.acts = s.acts (+) SetToBag({Activity("collection_activities", c, i, "LEGAL_REFERRAL", id)})]
      [] a = "ESCALATION" ->
           [s EXCEPT !.acts = s.acts (+) SetToBag({Activity("collection_activities", c, NoInvoice, "ESCALATION", id)})]
      [] OTHER -> s

\* _mark_instance_completed
MarkInstanceCompleted(id, s) ==
    [s EXCEPT !.insts[id].status = "COMPLETED", !.insts[id].completed_date = now]

\* _mark_instance_failed
MarkInstanceFailed(id, s) ==
    [s EXCEPT !.insts[id].status = "FAILED", !.insts[id].failure_reason = "error"]

\* SELECT MAX(step_order) FROM workflow_steps WHERE workflow_id = ?
MaxStepOrder(w) == Len(workflows[w].steps)

\* an UPDATE that completes the instance after any step
StatusAfterStepAlways(next_step, w) == "COMPLETED"

\* the status the UPDATE of a successful step writes
StatusAfterStep(next_step, w) ==
    IF next_step = MaxStepOrder(w) THEN "COMPLETED" ELSE "ACTIVE"

\* the scheduled_date the UPDATE of a successful step writes
NextScheduled(delay_days) == now + delay_days * TicksPerDay

\* variant: the UPDATE of the instance without the INSERT into the log
RecordStepNoLog(id, next_step, delay_days, s) ==
    LET w == s.insts[id].workflow_id IN
    [s EXCEPT !.insts[id].current_step = next_step,
              !.insts[id].scheduled_date = NextScheduled(delay_days),
              !.insts[id].status = StatusAfterStep(next_step, w)]

\* the INSERT into workflow_execution_log and the UPDATE of the instance,
\* committed together
RecordStep(id, next_step, delay_days, s) ==
    LET w == s.insts[id].workflow_id IN
    [s EXCEPT !.log = s.log (+) SetToBag({[instance_id |-> id, step_id |-> <<w, next_step>>,
                                           status |-> "SUCCESS"]}),
              !.insts[id].current_step = next_step,
              !.insts[id].scheduled_date = NextScheduled(delay_days),
              !.insts[id].status = StatusAfterStep(next_step, w)]

\* what can happen to one instance: the step runs ("ok"), the action raises
\* before it writes ("action_error"), or the action commits and the log
\* transaction then fails ("log_error")
StepOutcomes == {"ok", "action_error", "log_error"}

\* _execute_workflow_instance, with the except branch of its caller
ExecuteWorkflowInstance(id, oc, s) ==
    LET inst      == s.insts[id]
        w         == inst.workflow_id
        next_step == inst.current_step + 1
    IN  IF next_step \notin DOMAIN workflows[w].steps
        THEN [MarkInstanceCompleted(id, s) EXCEPT !.executed = s.executed + 1]
        ELSE LET step == workflows[w].steps[next_step] IN
             CASE oc = "ok" ->
                    [RecordStep(id, next_step, step.delay_days,
                                ExecuteAction(step.action_type, inst.customer_id, inst.invoice_id, id, s))
                       EXCEPT !.executed = s.executed + 1]
               [] oc = "action_error" ->
                    [MarkInstanceFailed(id, s) EXCEPT !.failed = s.failed + 1]
               [] OTHER ->
                    [MarkInstanceFailed(id,
                        ExecuteAction(step.action_type, inst.customer_id, inst.invoice_id, id, s))
                       EXCEPT !.failed = s.failed + 1]

\* a SELECT that also picks up FAILED instances (auto-retry)
PendingDueWithRetry(insts) ==
    {id \in DOMAIN insts : insts[id].status \in {"PENDING", "FAILED"}
                            /\ insts[id].scheduled_date <= now}

\* the SELECT of execute_pending_workflows
PendingDue(insts) ==
    {id \in DOMAIN insts : insts[id].status = "PENDING" /\ insts[id].scheduled_date <= now}

\* the loop over pending_instances, ORDER BY scheduled_date
RECURSIVE ExecuteEach(_, _)
ExecuteEach(todo, s) ==
    IF todo = {} THEN {s}
    ELSE LET first == {id \in todo : \A o \in todo :
                          s.insts[id].scheduled_date <= s.insts[o].scheduled_date}
         IN  UNION { UNION { ExecuteEach(todo \ {id}, ExecuteWorkflowInstance(id, oc, s))
                             : oc \in StepOutcomes }
                     : id \in first }

ExecuteDue ==
    \E out \in ExecuteEach(PendingDue(instances),
                           [insts |-> instances, log |-> execLog, acts |-> activities,
                            hold |-> creditHold, executed |-> 0, failed |-> 0]) :
        /\ instances' = out.insts
        /\ execLog' = out.log
        /\ activities' = out.acts
        /\ creditHold' = out.hold
        /\ hist' = [op |-> "exec", streak |-> -1]
        /\ UNCHANGED <<now, invoices, workflows>>
        /\ UNCHANGED <<pvars, procs, svars>>

(* ----- environment of the engine ---------------------------------------- *)

\* a payment in full is applied to an invoice (ar_data_generator.generate_payments)
PayInvoice ==
    \E i \in InvoiceIds :
        /\ invoices[i].status = "OPEN"
        /\ invoices' = [invoices EXCEPT ![i].status = "PAID", ![i].outstanding_amount = 0]
        /\ hist' = [op |-> "pay", streak |-> -1]
        /\ UNCHANGED <<now, workflows, instances, execLog, activities, creditHold>>
        /\ UNCHANGED <<pvars, procs, svars>>

\* time passes between two calls
Tick ==
    /\ now < MaxTime
    /\ now' = now + 1
    /\ UNCHANGED <<invoices, workflows, instances, execLog, activities, creditHold, hist>>
    /\ UNCHANGED <<pvars, procs, svars>>

\* the workers that may run engine calls side by side
ProcIds == {1, 2}
NoInstance == <<>>

\* a worker that is in no call
IdleProc == [pc |-> "idle", order |-> <<>>, w |-> 0, todo |-> {}, due |-> {},
             cur |-> NoInstance, step |-> 0]

\* op: the last call; streak: how many ScanTriggers calls have run since the
\* start if nothing else has run (ticks apart), -1 otherwise
InitHist == [op |-> "init", streak |-> 0]

\* the promise tracker's tables are empty and stay so under Spec
PIdle ==
    /\ today = 0
    /\ promises = <<>>
    /\ payments = EmptyBag
    /\ pactivities = EmptyBag
    /\ collection = [i \in InvoiceIds |-> "NONE"]

Init ==
    /\ now = 0
    /\ \E p2 \in InvoiceProfiles : \E c2 \in CustomerIds :
          invoices = (1 :> Invoice(1, "OPEN", 45, 5000)) @@
                     (2 :> Invoice(c2, p2[1], p2[2], p2[3]))
    /\ workflows \in WorkflowSetups
    /\ instances = <<>>
    /\ execLog = EmptyBag
    /\ activities = EmptyBag
    /\ creditHold = {}
    /\ hist = InitHist
    /\ procs = [p \in ProcIds |-> IdleProc]
    /\ PIdle
    /\ SIdle

Next ==
    \/ ScanTriggers
    \/ ExecuteDue
    \/ PayInvoice
    \/ Tick

Spec == Init /\ [][Next]_vars

(***************************************************************************)
(* Part 2.  Payment promise tracker.                                       *)
(***************************************************************************)

\* tolerance_settings
GracePeriodDays == 2
EscalationThreshold == 3
FollowUpLeadTime == 1
\* the payment window of process_overdue_promises: date(?, '+5 days')
PaymentWindowDays == 5
\* promise_date >= date('now', '-90 days')
EscalationLookbackDays == 90

PromiseStatuses == {"ACTIVE", "KEPT", "BROKEN", "PARTIALLY_KEPT", "CANCELLED"}

\* a customer id that is in no row of customers
UnknownCustomer == 9

\* inputs of the calls
PromiseAmounts == {0, 100}
ActualAmounts == {0, 85, 100}
PaymentAmounts == {9, 90}
\* a date string that is not of the form YYYY-MM-DD
BadDate == -2
UpdateDates == {NoDate, BadDate}
\* customers a promise is asked for: customer 1 and an unknown one
PromiseCustomers == {1, UnknownCustomer}

\* rows written so far to collection_activities and payments
RowsWritten == BagCardinality(pactivities) + BagCardinality(payments)

PromiseActivity(c, i, ty, res, nad, pid) ==
    [customer_id |-> c, invoice_id |-> i, activity_type |-> ty, activity_result |-> res,
     next_action_date |-> nad, promise |-> pid]

(* ----- create_payment_promise ------------------------------------------- *)

\* variant: the promised amount is not compared with the outstanding balance
CreateErrorNoBalanceCheck(c, i, amount, due) ==
    IF amount <= 0 THEN "Promised amount must be positive"
    ELSE IF due <= today THEN "Promise date must be in the future"
    ELSE IF c \notin CustomerIds THEN "Customer not found"
    ELSE IF i # NoInvoice /\ ~(/\ i \in InvoiceIds
                               /\ invoices[i].customer_id = c
                               /\ invoices[i].outstanding_amount > 0)
         THEN "Invoice not found or already paid"
    ELSE ""

\* the validation of create_payment_promise: "" when the input is accepted
CreateError(c, i, amount, due) ==
    IF amount <= 0 THEN "Promised amount must be positive"
    ELSE IF due <= today THEN "Promise date must be in the future"
    ELSE IF c \notin CustomerIds THEN "Customer not found"
    ELSE IF i # NoInvoice /\ ~(/\ i \in InvoiceIds
                               /\ invoices[i].customer_id = c
                               /\ invoices[i].outstanding_amount > 0)
         THEN "Invoice not found or already paid"
    ELSE IF i # NoInvoice /\ amount > invoices[i].outstanding_amount
         THEN "Promised amount exceeds outstanding balance"
    ELSE ""

\* variant: the follow-up falls on the due date itself
NewPromiseNoLead(c, i, amount, due) ==
    [customer_id |-> c, invoice_id |-> i, promise_date |-> today,
     promised_amount |-> amount, promised_payment_date |-> due, status |-> "ACTIVE",
     actual_payment_date |-> NoDate, actual_payment_amount |-> 0,
     follow_up_date |-> due, follow_up_completed |-> FALSE,
     escalation_required |-> FALSE, changed_by |-> "create"]

NewPromise(c, i, amount, due) ==
    [customer_id |-> c, invoice_id |-> i, promise_date |-> today,
     promised_amount |-> amount, promised_payment_date |-> due, status |-> "ACTIVE",
     actual_payment_date |-> NoDate, actual_payment_amount |-> 0,
     follow_up_date |-> due - FollowUpLeadTime, follow_up_completed |-> FALSE,
     escalation_required |-> FALSE, changed_by |-> "create"]

\* promises this run has created (the rows of earlier runs are marked "history")
CreatedPromises == {pid \in DOMAIN promises : promises[pid].changed_by # "history"}

CreatePromise ==
    \E c \in PromiseCustomers : \E i \in InvoiceIds \cup {NoInvoice} :
    \E amount \in PromiseAmounts : \E due \in today..(today + MaxAhead) :
        /\ Cardinality(CreatedPromises) < MaxPromises
        /\ RowsWritten < MaxRows
        /\ today <= MaxCreateDay
        /\ IF CreateError(c, i, amount, due) # ""
           THEN UNCHANGED <<promises, pactivities, collection>>
           ELSE /\ promises' = Append(promises, NewPromise(c, i, amount, due))
                /\ pactivities' = pactivities (+) SetToBag({
                       PromiseActivity(c, i, "PROMISE_FOLLOW_UP", "SCHEDULED",
                                       due - FollowUpLeadTime, Len(promises) + 1)})
                /\ collection' = IF i # NoInvoice
                                 THEN [collection EXCEPT ![i] = "PROMISE_RECEIVED"]
                                 ELSE collection
        /\ UNCHANGED <<today, payments>>
        /\ UNCHANGED <<wfvars, svars>>

(* ----- update_promise_status -------------------------------------------- *)

\* variant: a BROKEN promise may be updated again
ClosedStatusesNoBroken == {"KEPT", "CANCELLED"}

\* statuses update_promise_status refuses to leave
ClosedStatuses == {"KEPT", "BROKEN", "CANCELLED"}

\* the downgrade of KEPT: abs(actual - promised) > promised * 0.01 and
\* actual < promised * 0.9
EffectiveStatus(new_status, actual, promised) ==
    IF /\ new_status = "KEPT"
       /\ (IF actual >= promised THEN actual - promised ELSE promised - actual) * 100 > promised
       /\ actual * 10 < promised * 9
    THEN "PARTIALLY_KEPT"
    ELSE new_status

\* SELECT COUNT(*) ... WHERE customer_id = ? AND status = 'BROKEN'
\*   AND promise_date >= date('now', '-90 days')
BrokenCount(proms, c) ==
    Cardinality({k \in DOMAIN proms : /\ proms[k].customer_id = c
                                      /\ proms[k].status = "BROKEN"
                                      /\ proms[k].promise_date >= today - EscalationLookbackDays})

\* variant: escalation only from the fourth broken promise on
EscalationRequiredLate(proms, c, st) ==
    st = "BROKEN" /\ BrokenCount(proms, c) >= EscalationThreshold

EscalationRequired(proms, c, st) ==
    st = "BROKEN" /\ BrokenCount(proms, c) >= EscalationThreshold - 1

ActivityResultOf(st) ==
    CASE st = "KEPT" -> "PROMISE_KEPT"
      [] st = "BROKEN" -> "PROMISE_BROKEN"
      [] st = "PARTIALLY_KEPT" -> "PARTIAL_PAYMENT"
      [] OTHER -> "PROMISE_CANCELLED"

CollectionStatusOf(st, old) ==
    CASE st = "KEPT" -> "PAYMENT_RECEIVED"
      [] st = "BROKEN" -> "BROKEN_PROMISE"
      [] st = "PARTIALLY_KEPT" -> "PARTIAL_PAYMENT"
      [] OTHER -> old

\* the validation of update_promise_status: "" when the update goes ahead
UpdateError(proms, pid, new_status, actual, date) ==
    IF pid \notin DOMAIN proms THEN "Payment promise not found"
    ELSE IF date = BadDate THEN "Invalid payment date format"
    ELSE IF proms[pid].status \in ClosedStatuses THEN "Cannot update promise"
    ELSE IF new_status \in {"KEPT", "PARTIALLY_KEPT"} /\ actual <= 0
         THEN "Actual payment amount required"
    ELSE ""

\* update_promise_status on the tables s = [proms, acts, coll]; who is the caller
UpdatePromiseStatus(s, pid, new_status, actual, date, who) ==
    IF UpdateError(s.proms, pid, new_status, actual, date) # ""
    THEN [s EXCEPT !.ok = FALSE]
    ELSE LET row == s.proms[pid]
             st  == EffectiveStatus(new_status, actual, row.promised_amount)
             esc == EscalationRequired(s.proms, row.customer_id, st)
         IN  [proms |-> [s.proms EXCEPT ![pid].status = st,
                                        ![pid].actual_payment_date = date,
                                        ![pid].actual_payment_amount = actual,
                                        ![pid].escalation_required = esc,
                                        ![pid].follow_up_completed = TRUE,
                                        ![pid].changed_by = who],
              acts  |-> s.acts (+) SetToBag({
                          PromiseActivity(row.customer_id, row.invoice_id, "PROMISE_UPDATE",
                                          ActivityResultOf(st), NoDate, pid)}),
              coll  |-> IF row.invoice_id # NoInvoice
                        THEN [s.coll EXCEPT ![row.invoice_id] =
                                 CollectionStatusOf(st, s.coll[row.invoice_id])]
                        ELSE s.coll,
              ok    |-> TRUE]

UpdateStatus ==
    \E pid \in 1..(Len(promises) + 1) : \E new_status \in PromiseStatuses :
    \E actual \in ActualAmounts : \E date \in UpdateDates :
        /\ RowsWritten < MaxRows
        /\ LET out == UpdatePromiseStatus([proms |-> promises, acts |-> pactivities,
                                        coll |-> collection, ok |-> TRUE],
                                          pid, new_status, actual, date, "update")
           IN  /\ promises' = out.proms
               /\ pactivities' = out.acts
               /\ collection' = out.coll
        /\ UNCHANGED <<today, payments>>
        /\ UNCHANGED <<wfvars, svars>>

(* ----- process_overdue_promises ----------------------------------------- *)

\* SELECT SUM(pa.applied_amount) ... WHERE pa.invoice_id = ? AND
\*   p.payment_date >= ? AND p.payment_date <= date(?, '+5 days')
RECURSIVE SumRows(_, _)
SumRows(pays, rows) ==
    IF rows = {} THEN 0
    ELSE LET r == CHOOSE x \in rows : TRUE
         IN  r.applied_amount * CopiesIn(r, pays) + SumRows(pays, rows \ {r})

SumApplied(pays, i, due) ==
    SumRows(pays, {r \in BagToSet(pays) : /\ r.invoice_id = i
                                          /\ r.payment_date >= due
                                          /\ r.payment_date <= due + PaymentWindowDays})

\* actual_amount of one overdue promise
ActualAmount(row) ==
    IF row.invoice_id # NoInvoice
    THEN SumApplied(payments, row.invoice_id, row.promised_payment_date)
    ELSE 0

\* variant: only a payment of 99% counts as received
PaymentReceivedStrict(row) ==
    /\ row.invoice_id # NoInvoice
    /\ ActualAmount(row) > 0
    /\ ActualAmount(row) * 100 >= row.promised_amount * 99

\* payment_received: actual_amount >= promised_amount * 0.9
PaymentReceived(row) ==
    /\ row.invoice_id # NoInvoice
    /\ ActualAmount(row) > 0
    /\ ActualAmount(row) * 10 >= row.promised_amount * 9

\* the status process_overdue_promises asks for: KEPT from 99% on
ReconcileStatus(row) ==
    IF PaymentReceived(row)
    THEN (IF ActualAmount(row) * 100 >= row.promised_amount * 99
          THEN "KEPT" ELSE "PARTIALLY_KEPT")
    ELSE "BROKEN"

\* variant: for a promise without a linked invoice, the payments on any
\* invoice of the customer count
ProcessOverdueByCustomer(s, pid) ==
    LET row  == promises[pid]
        paid == IF row.invoice_id # NoInvoice THEN ActualAmount(row)
                ELSE SumRows(payments,
                        {r \in BagToSet(payments) :
                            /\ invoices[r.invoice_id].customer_id = row.customer_id
                            /\ r.payment_date >= row.promised_payment_date
                            /\ r.payment_date <= row.promised_payment_date + PaymentWindowDays})
    IN  IF paid > 0 /\ paid * 10 >= row.promised_amount * 9
        THEN UpdatePromiseStatus(s, pid,
                                 IF paid * 100 >= row.promised_amount * 99
                                    THEN "KEPT" ELSE "PARTIALLY_KEPT",
                                 paid, row.promised_payment_date, "reconcile")
        ELSE UpdatePromiseStatus(s, pid, "BROKEN", 0, NoDate, "reconcile")

\* the body of the loop over overdue_promises
ProcessOverdue(s, pid) ==
    LET row == promises[pid] IN
    IF PaymentReceived(row)
    THEN UpdatePromiseStatus(s, pid, ReconcileStatus(row), ActualAmount(row),
                             row.promised_payment_date, "reconcile")
    ELSE UpdatePromiseStatus(s, pid, "BROKEN", 0, NoDate, "reconcile")

\* the SELECT of process_overdue_promises
OverduePromises ==
    {pid \in DOMAIN promises : /\ promises[pid].status = "ACTIVE"
                               /\ promises[pid].promised_payment_date < today - GracePeriodDays}

\* the loop: the rows come in an unspecified order
RECURSIVE ProcessEach(_, _)
ProcessEach(todo, s) ==
    IF todo = {} THEN {s}
    ELSE UNION { ProcessEach(todo \ {pid}, ProcessOverdue(s, pid)) : pid \in todo }

Reconcile ==
    /\ RowsWritten + Cardinality(OverduePromises) <= MaxRows
    /\    \E out \in ProcessEach(OverduePromises, [proms |-> promises, acts |-> pactivities,
                                             coll |-> collection, ok |-> TRUE]) :
        /\ promises' = out.proms
        /\ pactivities' = out.acts
        /\ collection' = out.coll
        /\ UNCHANGED <<today, payments>>
        /\ UNCHANGED <<wfvars, svars>>

(* ----- environment of the promise tracker ------------------------------- *)

\* a payment dated today is applied to an invoice (payments and
\* payment_applications rows, ar_data_generator.generate_payments)
RecordPayment ==
    \E i \in InvoiceIds : \E amount \in PaymentAmounts :
        /\ BagCardinality(payments) < MaxPayments
        /\ RowsWritten < MaxRows
        /\ payments' = payments (+) SetToBag({[invoice_id |-> i, payment_date |-> today,
                                                applied_amount |-> amount]})
        /\ invoices' = [invoices EXCEPT
               ![i].outstanding_amount = invoices[i].outstanding_amount - amount,
               ![i].status = IF invoices[i].outstanding_amount - amount <= 0
                             THEN "PAID" ELSE "PARTIAL"]
        /\ UNCHANGED <<today, promises, pactivities, collection>>
        /\ UNCHANGED <<now, workflows, instances, execLog, activities, creditHold, hist, procs, svars>>

NextDay ==
    /\ today < MaxDay
    /\ today' = today + 1
    /\ UNCHANGED <<promises, payments, pactivities, collection>>
    /\ UNCHANGED <<wfvars, svars>>

\* the engine's tables are empty and stay so under PSpec
WIdle ==
    /\ now = 0
    /\ workflows = (1 :> TestExecutionWorkflow) @@ (2 :> StandardCollectionWorkflow)
    /\ instances = <<>>
    /\ execLog = EmptyBag
    /\ activities = EmptyBag
    /\ creditHold = {}
    /\ hist = InitHist
    /\ procs = [p \in ProcIds |-> IdleProc]

PInit ==
    /\ invoices = (1 :> Invoice(1, "OPEN", 45, 150)) @@ (2 :> Invoice(2, "OPEN", 45, 5000))
    /\ WIdle
    /\ PIdle
    /\ SIdle

PNext ==
    \/ CreatePromise
    \/ UpdateStatus
    \/ Reconcile
    \/ RecordPayment
    \/ NextDay

PSpec == PInit /\ [][PNext]_vars

(* ----- the promise tracker on a table that holds earlier promises ------- *)

\* a row an earlier run left: promised on day made, due the day after, BROKEN
BrokenBefore(c, made) ==
    [customer_id |-> c, invoice_id |-> NoInvoice, promise_date |-> made,
     promised_amount |-> 100, promised_payment_date |-> made + 1, status |-> "BROKEN",
     actual_payment_date |-> NoDate, actual_payment_amount |-> 0,
     follow_up_date |-> made + 1 - FollowUpLeadTime, follow_up_completed |-> TRUE,
     escalation_required |-> FALSE, changed_by |-> "history"]

\* days (before day 0) on which the earlier promises were made: inside and
\* outside the 90 days the escalation count looks back
RecentDay == -10
EarlierDay == -20
OldDay == -95

PromiseHistories ==
    { <<BrokenBefore(1, RecentDay)>>,
      <<BrokenBefore(1, RecentDay), BrokenBefore(1, EarlierDay)>>,
      <<BrokenBefore(1, RecentDay), BrokenBefore(1, OldDay)>>,
      <<BrokenBefore(1, RecentDay), BrokenBefore(2, EarlierDay)>> }

EInit ==
    /\ invoices = (1 :> Invoice(1, "OPEN", 45, 150)) @@ (2 :> Invoice(2, "OPEN", 45, 5000))
    /\ WIdle
    /\ today = 0
    /\ promises \in PromiseHistories
    /\ payments = EmptyBag
    /\ pactivities = EmptyBag
    /\ collection = [i \in InvoiceIds |-> "NONE"]
    /\ SIdle

\* the calls of the tracker while no payment arrives
ENext ==
    \/ CreatePromise
    \/ UpdateStatus
    \/ Reconcile
    \/ NextDay

ESpec == EInit /\ [][ENext]_vars

\* the batch cycle calls execute_pending_workflows again and again, and time passes
FairSpec == Spec /\ WF_vars(ExecuteDue) /\ WF_vars(Tick)

(***************************************************************************)
(* Part 3.  Engine calls of two workers running side by side.  Every SQL   *)
(* statement is one step; each _create_workflow_instance and each action   *)
(* commits on its own connection.                                          *)
(***************************************************************************)

(* ----- trigger_workflows, statement by statement ------------------------ *)

\* the call starts: SELECT ... FROM collection_workflows ORDER BY execution_order
ScanBegin(p) ==
    /\ procs[p].pc = "idle"
    /\ \E order \in WorkflowOrders :
          procs' = [procs EXCEPT ![p] = [IdleProc EXCEPT !.pc = "scan", !.order = order]]
    /\ UNCHANGED <<now, invoices, workflows, instances, execLog, activities, creditHold, hist>>
    /\ UNCHANGED <<pvars, svars>>

\* the trigger query of the next workflow: matching_invoices
ScanQuery(p) ==
    /\ procs[p].pc = "scan"
    /\ procs[p].todo = {}
    /\ procs[p].order # <<>>
    /\ procs' = [procs EXCEPT ![p].w = Head(procs[p].order),
                              ![p].order = Tail(procs[p].order),
                              ![p].todo = MatchingInvoices(Head(procs[p].order), instances)]
    /\ UNCHANGED <<now, invoices, workflows, instances, execLog, activities, creditHold, hist>>
    /\ UNCHANGED <<pvars, svars>>

\* _create_workflow_instance for one of the matching invoices; a duplicate
\* primary key raises out of trigger_workflows
ScanInsert(p) ==
    /\ procs[p].pc = "scan"
    /\ Cardinality(DOMAIN instances) < MaxInstances
    /\ \E i \in procs[p].todo :
          LET out == CreateWorkflowInstance(procs[p].w, i, now,
                         [insts |-> instances, t |-> now, created |-> <<>>, raised |-> FALSE])
          IN  /\ instances' = out.insts
              /\ procs' = IF out.raised
                          THEN [procs EXCEPT ![p] = [IdleProc EXCEPT !.pc = "raised"]]
                          ELSE [procs EXCEPT ![p].todo = procs[p].todo \ {i}]
    /\ UNCHANGED <<now, invoices, workflows, execLog, activities, creditHold, hist>>
    /\ UNCHANGED <<pvars, svars>>

\* return triggered_instances
ScanReturn(p) ==
    /\ procs[p].pc = "scan"
    /\ procs[p].todo = {}
    /\ procs[p].order = <<>>
    /\ procs' = [procs EXCEPT ![p] = IdleProc]
    /\ UNCHANGED <<now, invoices, workflows, instances, execLog, activities, creditHold, hist>>
    /\ UNCHANGED <<pvars, svars>>

ScanNext ==
    \/ \E p \in ProcIds : ScanBegin(p)
    \/ \E p \in ProcIds : ScanQuery(p)
    \/ \E p \in ProcIds : ScanInsert(p)
    \/ \E p \in ProcIds : ScanReturn(p)
    \/ Tick

ScanSpec == Init /\ [][ScanNext]_vars

(* ----- execute_pending_workflows, statement by statement ---------------- *)

\* the call starts: the SELECT of the due PENDING instances, with the
\* scheduled_date each row had when it was read
ExecBegin(p) ==
    /\ procs[p].pc = "idle"
    /\ procs' = [procs EXCEPT ![p] =
          [IdleProc EXCEPT !.pc = "exec",
                           !.due = {<<instances[id].scheduled_date, id>> : id \in PendingDue(instances)}]]
    /\ UNCHANGED <<now, invoices, workflows, instances, execLog, activities, creditHold, hist>>
    /\ UNCHANGED <<pvars, svars>>

\* the next row of pending_instances, ORDER BY scheduled_date
NextDue(p) ==
    {r \in procs[p].due : \A o \in procs[p].due : r[1] <= o[1]}

\* _execute_workflow_instance up to the action: the two SELECTs, and
\* _mark_instance_completed when there is no next step
ExecRead(p) ==
    /\ procs[p].pc = "exec"
    /\ procs[p].cur = NoInstance
    /\ \E r \in NextDue(p) :
          LET id        == r[2]
              inst      == instances[id]
              next_step == inst.current_step + 1
          IN  IF next_step \notin DOMAIN workflows[inst.workflow_id].steps
              THEN /\ instances' = MarkInstanceCompleted(id, [insts |-> instances]).insts
                   /\ procs' = [procs EXCEPT ![p].due = procs[p].due \ {r}]
              ELSE /\ instances' = instances
                   /\ procs' = [procs EXCEPT ![p].due = procs[p].due \ {r},
                                             ![p].cur = id,
                                             ![p].step = inst.current_step]
    /\ UNCHANGED <<now, invoices, workflows, execLog, activities, creditHold, hist>>
    /\ UNCHANGED <<pvars, svars>>

\* the rest of _execute_workflow_instance for the step that was read: the
\* action, the log row and the UPDATE, or the except branch of the caller
FinishStep(id, current_step, oc, s) ==
    LET inst      == s.insts[id]
        next_step == current_step + 1
        step      == workflows[inst.workflow_id].steps[next_step]
    IN  CASE oc = "ok" ->
               RecordStep(id, next_step, step.delay_days,
                          ExecuteAction(step.action_type, inst.customer_id, inst.invoice_id, id, s))
          [] oc = "action_error" -> MarkInstanceFailed(id, s)
          [] OTHER ->
               MarkInstanceFailed(id,
                   ExecuteAction(step.action_type, inst.customer_id, inst.invoice_id, id, s))

ExecFinish(p) ==
    /\ procs[p].pc = "exec"
    /\ procs[p].cur # NoInstance
    /\ \E oc \in StepOutcomes :
          LET out == FinishStep(procs[p].cur, procs[p].step, oc,
                                [insts |-> instances, log |-> execLog, acts |-> activities,
                                 hold |-> creditHold])
          IN  /\ instances' = out.insts
              /\ execLog' = out.log
              /\ activities' = out.acts
              /\ creditHold' = out.hold
    /\ procs' = [procs EXCEPT ![p].cur = NoInstance, ![p].step = 0]
    /\ UNCHANGED <<now, invoices, workflows, hist>>
    /\ UNCHANGED <<pvars, svars>>

\* return execution_results
ExecReturn(p) ==
    /\ procs[p].pc = "exec"
    /\ procs[p].cur = NoInstance
    /\ procs[p].due = {}
    /\ procs' = [procs EXCEPT ![p] = IdleProc]
    /\ UNCHANGED <<now, invoices, workflows, instances, execLog, activities, creditHold, hist>>
    /\ UNCHANGED <<pvars, svars>>

ExecNext ==
    \/ ScanTriggers
    \/ \E p \in ProcIds : ExecBegin(p)
    \/ \E p \in ProcIds : ExecRead(p)
    \/ \E p \in ProcIds : ExecFinish(p)
    \/ \E p \in ProcIds : ExecReturn(p)
    \/ Tick

\* one ledger: both invoices match workflow 1, invoice 1 also matches workflow 2
ExecInit ==
    /\ now = 0
    /\ invoices = (1 :> Invoice(1, "OPEN", 45, 5000)) @@ (2 :> Invoice(2, "OPEN", 45, 300))
    /\ workflows = (1 :> TestExecutionWorkflow) @@ (2 :> StandardCollectionWorkflow)
    /\ instances = <<>>
    /\ execLog = EmptyBag
    /\ activities = EmptyBag
    /\ creditHold = {}
    /\ hist = InitHist
    /\ procs = [p \in ProcIds |-> IdleProc]
    /\ PIdle
    /\ SIdle

ExecSpec == ExecInit /\ [][ExecNext]_vars

(* ----- the engine with caller-defined definitions ----------------------- *)

\* invoice 1 matches the payment plan definition, invoice 2 only the credit
\* hold definition
PlanInit ==
    /\ now = 0
    /\ invoices = (1 :> Invoice(1, "OPEN", 45, 5000)) @@ (2 :> Invoice(2, "OPEN", 45, 300))
    /\ workflows = (1 :> PaymentPlanWorkflow) @@ (2 :> CreditHoldWorkflow)
    /\ instances = <<>>
    /\ execLog = EmptyBag
    /\ activities = EmptyBag
    /\ creditHold = {}
    /\ hist = InitHist
    /\ procs = [p \in ProcIds |-> IdleProc]
    /\ PIdle
    /\ SIdle

PlanSpec == PlanInit /\ [][Next]_vars

(* ----- properties of the engine ----------------------------------------- *)

InstancesOf(w, i, sts) ==
    {id \in DOMAIN instances : /\ instances[id].workflow_id = w
                               /\ instances[id].invoice_id = i
                               /\ instances[id].status \in sts}

\* C1: for every (workflow definition, invoice) pair at most one instance is
\* PENDING or ACTIVE, in every state a single worker reaches by ScanTriggers
\* and ExecuteDue calls.
DedupInvariant ==
    \A w \in WorkflowIds : \A i \in InvoiceIds :
        Cardinality(InstancesOf(w, i, Outstanding)) <= 1

\* two scans have run and an instance created at the start is still
\* outstanding for an invoice that still matches its trigger
DedupWitness ==
    /\ hist.streak = 2
    /\ now > 0
    /\ \E id \in DOMAIN instances :
          /\ id[3] = 0
          /\ instances[id].status \in Outstanding
          /\ TriggerMatches(instances[id].workflow_id, instances[id].invoice_id)

QualifyingPairs == {p \in WorkflowIds \X InvoiceIds : TriggerMatches(p[1], p[2])}

\* C2: a ScanTriggers call that follows a ScanTriggers call (no ExecuteDue, no
\* ledger change in between) creates no instance for a (definition, invoice)
\* pair that already has an outstanding instance; and with exactly one
\* qualifying (definition, invoice) pair, exactly one instance exists after two
\* scans and it is PENDING.
ScanIdempotent ==
    /\ [][(hist.op = "scan" /\ hist'.op = "scan") =>
            \A id \in DOMAIN instances' \ DOMAIN instances :
                <<instances'[id].workflow_id, instances'[id].invoice_id>>
                    \notin OutstandingPairs(instances)]_vars
    /\ []((hist.streak = 2 /\ Cardinality(QualifyingPairs) = 1) =>
            \E id \in DOMAIN instances :
                /\ DOMAIN instances = {id}
                /\ instances[id].status = "PENDING"
                /\ <<instances[id].workflow_id, instances[id].invoice_id>> \in QualifyingPairs)

ScanIdempotentWitness ==
    /\ hist.streak = 2
    /\ Cardinality(QualifyingPairs) = 1
    /\ now > 0
    /\ \E id \in DOMAIN instances : id[3] = 0

AllInstanceIds == WorkflowIds \X CustomerIds \X (0..MaxTime)

\* C3: no instance remains PENDING or ACTIVE forever: repeated ExecuteDue
\* calls bring every instance to a terminal status.
ProgressToCompletion ==
    \A id \in AllInstanceIds :
        (id \in DOMAIN instances /\ instances[id].status \in Outstanding)
            ~> (id \in DOMAIN instances /\ instances[id].status \in Terminal)

\* C4: currentStep never decreases, and a COMPLETED instance has currentStep
\* equal to the number of steps of its definition.
WorkflowMonotone ==
    /\ [][\A id \in DOMAIN instances :
            instances'[id].current_step >= instances[id].current_step]_vars
    /\ [](\A id \in DOMAIN instances :
            instances[id].status = "COMPLETED" =>
                instances[id].current_step = Len(workflows[instances[id].workflow_id].steps))

\* one instance completed by executing its last step, one by finding no step
WorkflowMonotoneWitness ==
    /\ \E id \in DOMAIN instances :
          instances[id].status = "COMPLETED" /\ instances[id].current_step = 1
    /\ \E id \in DOMAIN instances :
          instances[id].status = "ACTIVE" /\ instances[id].current_step = 1

CompletedWithoutStepsWitness ==
    \E id \in DOMAIN instances :
        instances[id].status = "COMPLETED" /\ instances[id].current_step = 0

RowsOf(bag, id) == {e \in BagToSet(bag) : e.instance = id}
LogRowsOf(bag, id) == {e \in BagToSet(bag) : e.instance_id = id}

\* C5: once an instance is COMPLETED, FAILED or CANCELLED, no later call
\* changes its row (status, currentStep, failure reason), and no action runs
\* and no log row is written for it again.
TerminalImmutable ==
    [][\A id \in DOMAIN instances :
          instances[id].status \in Terminal =>
              /\ instances'[id] = instances[id]
              /\ \A e \in LogRowsOf(execLog', id) : CopiesIn(e, execLog') = CopiesIn(e, execLog)
              /\ \A e \in RowsOf(activities', id) : CopiesIn(e, activities') = CopiesIn(e, activities)]_vars

\* a FAILED instance that is due, and a later instance of the same invoice
\* that an ExecuteDue call has processed since
TerminalImmutableWitness ==
    \E a, b \in DOMAIN instances :
        /\ a # b
        /\ instances[a].invoice_id = instances[b].invoice_id
        /\ instances[a].status = "FAILED"
        /\ instances[a].scheduled_date <= now
        /\ instances[b].status \in {"ACTIVE", "COMPLETED", "FAILED"}

\* C6: an instance whose final step has been executed successfully is
\* COMPLETED and has its completed date set.
FinalStepSetsCompletedDate ==
    \A id \in DOMAIN instances :
        (/\ instances[id].current_step >= 1
         /\ instances[id].current_step = MaxStepOrder(instances[id].workflow_id))
        => /\ instances[id].status = "COMPLETED"
           /\ instances[id].completed_date # NoDate

\* the step an ExecuteDue call has just advanced instance id to, if any
StepDone(id) ==
    /\ id \in DOMAIN instances'
    /\ instances'[id].current_step = instances[id].current_step + 1

ActionOf(id) ==
    workflows[instances[id].workflow_id].steps[instances[id].current_step + 1].action_type

\* C22: when an ExecuteDue call executes a PAYMENT_PLAN step of an instance,
\* exactly one new payment promise exists afterwards, ACTIVE, for the
\* customer and the invoice of the instance.
PaymentPlanCreatesPromise ==
    [][ExecuteDue =>
          \A id \in DOMAIN instances :
              (StepDone(id) /\ ActionOf(id) = "PAYMENT_PLAN") =>
                  Cardinality({pid \in DOMAIN promises' \ DOMAIN promises :
                                  /\ promises'[pid].status = "ACTIVE"
                                  /\ promises'[pid].customer_id = instances[id].customer_id
                                  /\ promises'[pid].invoice_id = instances[id].invoice_id}) = 1]_vars

\* a PAYMENT_PLAN step is logged as executed and there is no promise
PaymentPlanWithoutPromise ==
    /\ \E id \in DOMAIN instances :
          /\ workflows[instances[id].workflow_id].steps[1].action_type = "PAYMENT_PLAN"
          /\ instances[id].current_step = 1
          /\ LogRowsOf(execLog, id) # {}
    /\ promises = <<>>

\* the due instances of an ExecuteDue call that have a step left to attempt
Attempted ==
    {id \in PendingDue(instances) :
        instances[id].current_step + 1 \in DOMAIN workflows[instances[id].workflow_id].steps}

\* C23: every step an ExecuteDue call attempts adds exactly one execution
\* log row for that instance and step, with status SUCCESS when the step
\* succeeded and FAILURE when it failed; and no call removes or changes a
\* log row.
LogCoversAttempts ==
    /\ [][ExecuteDue =>
            \A id \in Attempted :
                LET row == [instance_id |-> id,
                            step_id |-> <<instances[id].workflow_id, instances[id].current_step + 1>>,
                            status |-> IF instances'[id].status = "FAILED"
                                          THEN "FAILURE" ELSE "SUCCESS"]
                IN  CopiesIn(row, execLog') = CopiesIn(row, execLog) + 1]_vars
    /\ [][\A e \in BagToSet(execLog) : CopiesIn(e, execLog') >= CopiesIn(e, execLog)]_vars

\* an ExecuteDue call has failed a step and the log has no row of the instance
FailedWithoutLog ==
    /\ hist.op = "exec"
    /\ \E id \in DOMAIN instances :
          instances[id].status = "FAILED" /\ LogRowsOf(execLog, id) = {}

\* number of rows, copies counted
RECURSIVE CopiesOf(_, _)
CopiesOf(bag, rows) ==
    IF rows = {} THEN 0
    ELSE LET e == CHOOSE x \in rows : TRUE
         IN  CopiesIn(e, bag) + CopiesOf(bag, rows \ {e})

ActionRowsIn(bag, id) == CopiesOf(bag, RowsOf(bag, id))
ActionRows(id) == ActionRowsIn(activities, id)
LogRows(id) == CopiesOf(execLog, LogRowsOf(execLog, id))

\* C24: in every state, also after an action error or a storage failure in
\* the middle of an ExecuteDue call, each instance has as many action rows
\* as execution log rows and as steps advanced: the three are written
\* together or not at all.
StepAtomic ==
    \A id \in DOMAIN instances :
        /\ ActionRows(id) = LogRows(id)
        /\ LogRows(id) = instances[id].current_step

\* the action of a step has written its row and the step is neither logged
\* nor advanced
ActionWithoutLog ==
    \E id \in DOMAIN instances :
        /\ instances[id].status = "FAILED"
        /\ ActionRows(id) = 1
        /\ LogRows(id) = 0
        /\ instances[id].current_step = 0

\* C25: after an ExecuteDue call has executed step k of an instance, the
\* instance is scheduled for now plus the delay of step k+1 when there is
\* one, and keeps its scheduled date when step k was the last.
RescheduleByNextDelay ==
    [][ExecuteDue =>
          \A id \in DOMAIN instances :
              StepDone(id) =>
                  LET steps == workflows[instances[id].workflow_id].steps
                      k     == instances[id].current_step + 1
                  IN  IF k + 1 \in DOMAIN steps
                         THEN instances'[id].scheduled_date
                                 = now + steps[k + 1].delay_days * TicksPerDay
                         ELSE instances'[id].scheduled_date = instances[id].scheduled_date]_vars

\* step 1 is done, step 2 has a delay, and the instance is scheduled at once
ScheduledBeforeNextDelay ==
    \E id \in DOMAIN instances :
        LET steps == workflows[instances[id].workflow_id].steps IN
        /\ instances[id].current_step = 1
        /\ 2 \in DOMAIN steps
        /\ steps[2].delay_days > 0
        /\ instances[id].scheduled_date <= now

\* C26: every step an ExecuteDue call executes, whatever its action type,
\* writes exactly one activity or audit row, for the customer of the
\* instance; a CREDIT_HOLD step also sets the credit hold of that customer.
OneRecordPerAction ==
    [][ExecuteDue =>
          \A id \in DOMAIN instances :
              StepDone(id) =>
                  /\ ActionRowsIn(activities', id) = ActionRowsIn(activities, id) + 1
                  /\ \A e \in RowsOf(activities', id) :
                        e.customer_id = instances[id].customer_id
                  /\ ActionOf(id) = "CREDIT_HOLD" =>
                        instances[id].customer_id \in creditHold']_vars

\* a PAYMENT_PLAN step is logged as executed and no row was written for it
PaymentPlanWithoutRecord ==
    \E id \in DOMAIN instances :
        /\ workflows[instances[id].workflow_id].steps[1].action_type = "PAYMENT_PLAN"
        /\ instances[id].current_step = 1
        /\ LogRows(id) = 1
        /\ ActionRows(id) = 0

\* a CREDIT_HOLD step has run: one credit_history row and the hold is set
CreditHoldApplied ==
    \E id \in DOMAIN instances :
        /\ workflows[instances[id].workflow_id].steps[1].action_type = "CREDIT_HOLD"
        /\ instances[id].current_step = 1
        /\ ActionRows(id) = 1
        /\ instances[id].customer_id \in creditHold

\* C27: two instances a ScanTriggers call creates for different invoices
\* get different ids, also for one definition, one customer and one second:
\* when every earlier instance was created in an earlier second, then after
\* the call every invoice that meets a trigger has a PENDING or ACTIVE
\* instance (the call has created all of them and has not stopped on an
\* error).
InstanceIdsDistinct ==
    [][(ScanTriggers /\ \A id \in DOMAIN instances : id[3] < now) =>
          \A i \in InvoiceIds :
              (\E w \in WorkflowIds : TriggerMatches(w, i)) =>
                  InActiveWorkflow(instances', i)]_vars

\* a scan has run, both invoices of one customer meet the trigger of a
\* definition, and only one of them has an instance
SecondInvoiceWithoutInstance ==
    /\ hist.op = "scan"
    /\ invoices[1].customer_id = invoices[2].customer_id
    /\ \E w \in WorkflowIds : TriggerMatches(w, 1) /\ TriggerMatches(w, 2)
    /\ \E i \in InvoiceIds : ~InActiveWorkflow(instances, i)
    /\ \E i \in InvoiceIds : InActiveWorkflow(instances, i)
    /\ \A id \in DOMAIN instances : instances[id].status = "PENDING"

\* C28: with a single worker, in every state the execution log holds for
\* each instance exactly one SUCCESS row for each of the steps 1..current_step
\* of its definition and no other row, and no call advances an instance by
\* more than one step.
LogStepAgreement ==
    /\ [](\A id \in DOMAIN instances :
            LET w == instances[id].workflow_id IN
            /\ LogRows(id) = instances[id].current_step
            /\ \A k \in 1..instances[id].current_step :
                  CopiesIn([instance_id |-> id, step_id |-> <<w, k>>, status |-> "SUCCESS"],
                           execLog) = 1)
    /\ [][\A id \in DOMAIN instances :
            instances'[id].current_step <= instances[id].current_step + 1]_vars

\* an ExecuteDue call has executed a step of one instance and failed another
LogStepAgreementWitness ==
    /\ hist.op = "exec"
    /\ \E a, b \in DOMAIN instances :
          /\ instances[a].current_step = 1
          /\ LogRows(a) = 1
          /\ instances[b].status = "FAILED"
          /\ ActionRows(b) = 1
          /\ LogRows(b) = 0

OutstandingOf(insts, i) ==
    {id \in DOMAIN insts : insts[id].invoice_id = i /\ insts[id].status \in Outstanding}

\* C29: with a single worker, every invoice has at most one PENDING or
\* ACTIVE instance, counted over all definitions, and no call creates an
\* instance for an invoice that has a PENDING or ACTIVE instance of any
\* definition.
OneWorkflowPerInvoice ==
    /\ [](\A i \in InvoiceIds : Cardinality(OutstandingOf(instances, i)) <= 1)
    /\ [][\A id \in DOMAIN instances' \ DOMAIN instances :
            OutstandingOf(instances, instances'[id].invoice_id) = {}]_vars

\* a scan has run while an invoice that meets the triggers of both
\* definitions had an ACTIVE instance of one of them
OneWorkflowPerInvoiceWitness ==
    /\ hist.op = "scan"
    /\ now > 0
    /\ \E i \in InvoiceIds :
          /\ \A w \in WorkflowIds : TriggerMatches(w, i)
          /\ \E id \in OutstandingOf(instances, i) :
                /\ instances[id].status = "ACTIVE"
                /\ id[3] < now

(* ----- properties of the promise tracker -------------------------------- *)

PromiseRowsOf(bag, pid) == {e \in BagToSet(bag) : e.promise = pid}

\* C7: once a promise is KEPT, BROKEN or CANCELLED, an UpdateStatus call on it
\* with any status, amount and date is rejected and changes no table, and no
\* later call (UpdateStatus, Reconcile or any other) changes its row or writes
\* an activity for it.
PromiseTerminality ==
    /\ [](\A pid \in DOMAIN promises :
            promises[pid].status \in {"KEPT", "BROKEN", "CANCELLED"} =>
                \A new_status \in PromiseStatuses : \A actual \in ActualAmounts :
                \A date \in UpdateDates :
                    LET s   == [proms |-> promises, acts |-> pactivities,
                                coll |-> collection, ok |-> TRUE]
                        out == UpdatePromiseStatus(s, pid, new_status, actual, date, "update")
                    IN  out = [s EXCEPT !.ok = FALSE])
    /\ [][\A pid \in DOMAIN promises :
            promises[pid].status \in {"KEPT", "BROKEN", "CANCELLED"} =>
                /\ promises'[pid] = promises[pid]
                /\ \A e \in PromiseRowsOf(pactivities', pid) :
                       CopiesIn(e, pactivities') = CopiesIn(e, pactivities)]_vars

\* a promise closed by UpdateStatus before it fell due, and a Reconcile call
\* past the grace period that has since processed another promise
PromiseTerminalityWitness ==
    \E a, b \in DOMAIN promises :
        /\ promises[a].status \in {"KEPT", "BROKEN", "CANCELLED"}
        /\ promises[a].changed_by = "update"
        /\ promises[a].promised_payment_date < today - GracePeriodDays
        /\ promises[b].changed_by = "reconcile"

\* C8: every status change of a promise starts from ACTIVE and ends in KEPT,
\* BROKEN, PARTIALLY_KEPT or CANCELLED; a PARTIALLY_KEPT promise never changes
\* status again.
PromiseStateMachine ==
    [][\A pid \in DOMAIN promises :
          promises'[pid].status # promises[pid].status =>
              /\ promises[pid].status = "ACTIVE"
              /\ promises'[pid].status \in {"KEPT", "BROKEN", "PARTIALLY_KEPT", "CANCELLED"}]_vars

\* C9: a Reconcile call sets every ACTIVE promise with a linked invoice whose
\* due date is more than 2 days in the past to KEPT if A >= 99% of P, to
\* PARTIALLY_KEPT if 90% of P <= A < 99% of P and to BROKEN otherwise, where A
\* is the sum of the payments applied to the invoice and dated within
\* [due, due + 5] and P the promised amount; it leaves the ACTIVE promises
\* not yet past the grace period unchanged.
ReconcileClassification ==
    [][Reconcile =>
          \A pid \in DOMAIN promises :
              LET row == promises[pid]
                  P   == row.promised_amount
                  A   == SumApplied(payments, row.invoice_id, row.promised_payment_date)
              IN  /\ (/\ row.status = "ACTIVE"
                      /\ row.promised_payment_date < today - 2
                      /\ row.invoice_id # NoInvoice)
                     => promises'[pid].status =
                            (IF A * 100 >= P * 99 THEN "KEPT"
                             ELSE IF A * 10 >= P * 9 THEN "PARTIALLY_KEPT"
                             ELSE "BROKEN")
                  /\ (/\ row.status = "ACTIVE"
                      /\ ~(row.promised_payment_date < today - 2))
                     => promises'[pid] = row]_vars

\* Reconcile has found a payment of 90 for the promised 100 and has left a
\* promise that fell due a day later ACTIVE
ReconcileClassificationWitness ==
    \E a, b \in DOMAIN promises :
        /\ promises[a].changed_by = "reconcile"
        /\ promises[a].status = "PARTIALLY_KEPT"
        /\ promises[a].actual_payment_amount = 90
        /\ promises[b].status = "ACTIVE"
        /\ promises[b].promised_payment_date = today - 2

\* C10: a promise whose linked invoice has received payments of at least 90%
\* of the promised amount dated within [due, due + 5] is never BROKEN by
\* Reconcile, whatever the order of Reconcile calls and payment recordings.
HonouredInWindow ==
    \A pid \in DOMAIN promises :
        (/\ promises[pid].invoice_id # NoInvoice
         /\ SumApplied(payments, promises[pid].invoice_id,
                       promises[pid].promised_payment_date) * 10
                >= promises[pid].promised_amount * 9)
        => ~(promises[pid].status = "BROKEN" /\ promises[pid].changed_by = "reconcile")

\* promises of customer c that are BROKEN and were made in the last 90 days
BrokenInLookback(proms, c) ==
    {k \in DOMAIN proms : /\ proms[k].customer_id = c
                          /\ proms[k].status = "BROKEN"
                          /\ proms[k].promise_date >= today - 90}

\* promises of customer c that the step turns BROKEN
NewlyBroken(c) ==
    {k \in DOMAIN promises : /\ promises[k].customer_id = c
                             /\ promises[k].status # "BROKEN"
                             /\ promises'[k].status = "BROKEN"}

\* C11: a transition to BROKEN (by Reconcile or UpdateStatus) sets
\* escalation_required exactly when, counting this one, the promise is at least
\* the customer's 3rd BROKEN promise among those made in the trailing 90 days:
\* with k such promises before the step and n promises of the customer turned
\* BROKEN by the step, the j-th of them (j = 1..n) is escalated iff k + j >= 3.
EscalationOnThirdBroken ==
    [][\A c \in CustomerIds :
          LET k == Cardinality(BrokenInLookback(promises, c))
              n == Cardinality(NewlyBroken(c))
          IN  Cardinality({p \in NewlyBroken(c) : promises'[p].escalation_required})
                  = Cardinality({j \in 1..n : k + j >= 3})]_vars

\* one earlier broken promise, and one Reconcile pass that broke two promises
\* of the customer: the second broken promise is not escalated, the third is
EscalationOnThirdBrokenWitness ==
    /\ Len(promises) = 3
    /\ promises[1].changed_by = "history"
    /\ \E a, b \in 2..3 :
          /\ promises[a].status = "BROKEN" /\ promises[a].changed_by = "reconcile"
          /\ promises[b].status = "BROKEN" /\ promises[b].changed_by = "reconcile"
          /\ promises[a].escalation_required
          /\ ~promises[b].escalation_required

\* an old broken promise is not counted: the customer's third broken promise
\* on record is not escalated
EscalationLookbackWitness ==
    /\ Len(promises) = 3
    /\ promises[2].promise_date = OldDay
    /\ promises[3].status = "BROKEN"
    /\ ~promises[3].escalation_required

(* ----- properties of engine calls running side by side ------------------ *)

\* C12: when two ScanTriggers executions interleave, every (definition,
\* invoice) pair ends with at most one PENDING/ACTIVE instance and no scanner
\* raises an error.
ConcurrentScanSafe ==
    /\ \A w \in WorkflowIds : \A i \in InvoiceIds :
          Cardinality(InstancesOf(w, i, Outstanding)) <= 1
    /\ \A p \in ProcIds : procs[p].pc # "raised"

\* two scanners have left two outstanding instances for one pair
ConcurrentScanDuplicate ==
    \E w \in WorkflowIds : \E i \in InvoiceIds :
        Cardinality(InstancesOf(w, i, Outstanding)) >= 2

\* a scanner has lost the race within one clock tick and has raised
ConcurrentScanRaised ==
    \E p \in ProcIds : procs[p].pc = "raised"

\* C13: when two ExecuteDue passes interleave, no step of an instance is
\* executed twice (at most one SUCCESS log row per instance and step, and no
\* more action rows than steps started), current_step advances by at most one
\* at a time, and a terminal status written by one pass is not overwritten by
\* the other.
ConcurrentExecuteSafe ==
    /\ [](/\ \A e \in BagToSet(execLog) : CopiesIn(e, execLog) <= 1
          /\ \A id \in DOMAIN instances :
                BagCardinality([e \in RowsOf(activities, id) |-> CopiesIn(e, activities)])
                    <= instances[id].current_step
                         + (IF instances[id].status = "FAILED" THEN 1 ELSE 0))
    /\ [][\A id \in DOMAIN instances :
            /\ instances'[id].current_step <= instances[id].current_step + 1
            /\ instances[id].status \in Terminal
                  => instances'[id].status = instances[id].status]_vars

\* two passes have both run step 1 of one instance
StepExecutedTwice ==
    \E e \in BagToSet(execLog) : CopiesIn(e, execLog) >= 2

\* C14: an ExecuteDue call does not run the step of a due PENDING instance
\* whose invoice is no longer OPEN (no action row, no log row, no credit
\* hold) and sets the instance's status to CANCELLED.
CancelledWhenInvoiceClosed ==
    [][ExecuteDue =>
          \A id \in PendingDue(instances) :
              invoices[instances[id].invoice_id].status # "OPEN" =>
                  /\ instances'[id].status = "CANCELLED"
                  /\ RowsOf(activities', id) = {}
                  /\ LogRowsOf(execLog', id) = {}]_vars

\* the action of an instance has run although its invoice was PAID
ActionOnPaidInvoice ==
    \E id \in DOMAIN instances :
        /\ invoices[instances[id].invoice_id].status = "PAID"
        /\ hist.op = "exec"
        /\ RowsOf(activities, id) # {}

\* the (definition, invoice) pairs the trigger of which the invoice meets and
\* that have no PENDING/ACTIVE instance of that definition
PairsToCreate ==
    {q \in WorkflowIds \X InvoiceIds :
        TriggerMatches(q[1], q[2]) /\ InstancesOf(q[1], q[2], Outstanding) = {}}

\* C15: one ScanTriggers call creates exactly one new instance, PENDING and
\* scheduled for now or earlier, for every (definition, invoice) pair whose
\* trigger the invoice meets and that has no PENDING/ACTIVE instance of that
\* definition (also when one invoice qualifies for two definitions), and no
\* instance for any other pair.
ScanCreatesQualifying ==
    [][ScanTriggers =>
          LET new == DOMAIN instances' \ DOMAIN instances IN
          /\ \A q \in WorkflowIds \X InvoiceIds :
                Cardinality({id \in new : /\ instances'[id].workflow_id = q[1]
                                          /\ instances'[id].invoice_id = q[2]})
                    = (IF q \in PairsToCreate THEN 1 ELSE 0)
          /\ \A id \in new : /\ instances'[id].status = "PENDING"
                             /\ instances'[id].scheduled_date <= now']_vars

\* a scan has run and an invoice that meets the triggers of both definitions
\* has an instance of one of them only
ScanSkippedSecondDefinition ==
    /\ hist.op = "scan"
    /\ \E i \in InvoiceIds :
          /\ \A w \in WorkflowIds : TriggerMatches(w, i)
          /\ \E w \in WorkflowIds : InstancesOf(w, i, {"PENDING", "ACTIVE", "COMPLETED", "FAILED"}) = {}

\* C16: when the action of a due instance's next step raises during an
\* ExecuteDue call, the instance becomes FAILED with a failure reason, its
\* retry count grows by one and its current_step is unchanged, and the call
\* goes on to the other due instances (none of them is left PENDING).
StepFailureHandling ==
    [][ExecuteDue =>
          \A id \in PendingDue(instances) :
              /\ instances'[id].status # "PENDING"
              /\ instances'[id].status = "FAILED" =>
                    /\ instances'[id].failure_reason # ""
                    /\ instances'[id].retry_count = instances[id].retry_count + 1
                    /\ instances'[id].current_step = instances[id].current_step]_vars

\* an ExecuteDue call has failed one instance and executed another
FailedAndExecuted ==
    /\ hist.op = "exec"
    /\ \E a, b \in DOMAIN instances :
          /\ instances[a].status = "FAILED"
          /\ instances[a].retry_count = 0
          /\ instances[b].status \in {"ACTIVE", "COMPLETED"}

(* ----- properties of create_payment_promise ----------------------------- *)

\* the inputs a Create call is given
CreateInputs == PromiseCustomers \X (InvoiceIds \cup {NoInvoice}) \X PromiseAmounts
                    \X (today..(today + MaxAhead))

AmountWeight == 25
AgingWeight == 30
CustomerHistoryWeight == 20
RelationshipWeight == 15
CollectionEffortWeight == 10

\* risk_thresholds, in hundredths of a point
HighRiskScore == 7500
MediumRiskScore == 5000

\* value_tiers
Tier1Min == 100000
Tier2Min == 25000
Tier3Min == 5000

\* date('now', '-90 days') of the promise query, '-60 days' of the activity query
PromiseRateDays == 90
EffortWindowDays == 60

Min(a, b) == IF a <= b THEN a ELSE b
Max(a, b) == IF a >= b THEN a ELSE b

\* the number n / d (d > 0) as whole + rest / den with 0 <= rest < den
Fraction(n, d) == [whole |-> n \div d, rest |-> n % d, den |-> d]

\* x * k for an integer k > 0, x + n for an integer n
Times(x, k) ==
    [whole |-> x.whole * k + (x.rest * k) \div x.den, rest |-> (x.rest * k) % x.den,
     den |-> x.den]
Plus(x, n) == [x EXCEPT !.whole = @ + n]

\* x >= n, x > n, x < n for an integer n
AtLeast(x, n) == x.whole >= n
MoreThan(x, n) == x.whole > n \/ (x.whole = n /\ x.rest > 0)
LessThan(x, n) == x.whole < n

\* round(): x / u to the nearest integer, ties to even
Round(x, u) ==
    LET q == x.whole \div u
        twice == 2 * ((x.whole % u) * x.den + x.rest)
    IN  IF twice > u * x.den THEN q + 1
        ELSE IF twice = u * x.den /\ q % 2 = 1 THEN q + 1
        ELSE q

\* variant: the invoices of every customer
OutstandingInvoicesOfAll(c) ==
    {i \in DOMAIN invoices : invoices[i].outstanding_amount > 0}

\* _get_outstanding_invoices
OutstandingInvoices(c) ==
    {i \in DOMAIN invoices : /\ invoices[i].customer_id = c
                             /\ invoices[i].outstanding_amount > 0}

RECURSIVE TotalOutstanding(_)
TotalOutstanding(S) ==
    IF S = {} THEN 0
    ELSE LET i == CHOOSE j \in S : TRUE
         IN  invoices[i].outstanding_amount + TotalOutstanding(S \ {i})

\* _calculate_amount_score
AmountScore(S) ==
    IF S = {} THEN 0
    ELSE LET total_outstanding == TotalOutstanding(S)
         IN  IF total_outstanding <= 1000 THEN 1000
             ELSE IF total_outstanding <= 5000 THEN 2500
             ELSE IF total_outstanding <= 25000 THEN 5000
             ELSE IF total_outstanding <= 100000 THEN 7500
             ELSE 9000

\* days_score = min(100, days_past_due * 0.8), in tenths of a point
DaysScore(dpd) == Min(1000, dpd * 8)

RECURSIVE WeightedAging(_)
WeightedAging(S) ==
    IF S = {} THEN 0
    ELSE LET i == CHOOSE j \in S : TRUE
         IN  DaysScore(invoices[i].days_past_due) * invoices[i].outstanding_amount
               + WeightedAging(S \ {i})

\* _calculate_aging_score, in tenths of a point; every invoice of S has a
\* positive amount, so total_weight > 0
AgingScore(S) == Fraction(WeightedAging(S), TotalOutstanding(S))

\* the promises the history score counts
RecentPromises(c) ==
    {pid \in DOMAIN promises : /\ promises[pid].customer_id = c
                               /\ promises[pid].promise_date >= today - PromiseRateDays}

\* _calculate_payment_history_score
PaymentHistoryScore(c) ==
    LET r == customers[c]
        reliability_score == r.payment_reliability_score
        late == r.avg_days_to_pay - r.payment_terms_days
        timed == IF r.avg_days_to_pay <= r.payment_terms_days
                    THEN Min(10000, reliability_score + 1000)
                 ELSE IF r.avg_days_to_pay <= r.payment_terms_days + 10
                    THEN Max(0, reliability_score - 500)
                 ELSE Max(0, reliability_score - Min(5000, late * 200))
        total == Cardinality(RecentPromises(c))
        kept == Cardinality({pid \in RecentPromises(c) : promises[pid].status = "KEPT"})
    IN  IF total = 0 THEN timed
        ELSE IF 2 * kept < total THEN Max(0, timed - 2000)
        ELSE IF 10 * kept > 8 * total THEN Min(10000, timed + 500)
        ELSE timed

\* _calculate_relationship_score
RelationshipScore(c) ==
    LET r == customers[c]
        by_type == CASE r.customer_type = "VIP" -> -2000
                     [] r.customer_type = "HIGH_RISK" -> 3000
                     [] r.customer_type = "NEW" -> 1000
                     [] OTHER -> 0
        by_value == IF r.total_sales_lifetime >= Tier1Min THEN -1500
                    ELSE IF r.total_sales_lifetime >= Tier2Min THEN -500
                    ELSE IF r.total_sales_lifetime < Tier3Min THEN 1000
                    ELSE 0
        outstanding_total == TotalOutstanding(OutstandingInvoices(c))
        by_utilization ==
            IF r.credit_limit > 0 /\ outstanding_total # 0
               THEN IF outstanding_total > r.credit_limit THEN 2500
                    ELSE IF 10 * outstanding_total > 8 * r.credit_limit THEN 1500
                    ELSE IF 2 * outstanding_total > r.credit_limit THEN 500
                    ELSE 0
               ELSE 0
        \* relationship_years = days / 365.25, compared with 5 and with 1
        days == today - r.customer_since
        by_years == IF 4 * days > 7305 THEN -1000
                    ELSE IF 4 * days < 1461 THEN 500
                    ELSE 0
    IN  Max(0, Min(10000, 5000 + by_type + by_value + by_utilization + by_years))

\* _calculate_collection_effort_score
CollectionEffortScore(c) ==
    LET a == contactLog[c]
        by_answer == IF 10 * a.no_answer_count > 7 * a.total_activities THEN 2000
                     ELSE IF 10 * a.no_answer_count < 3 * a.total_activities THEN -500
                     ELSE 0
        by_promise == IF a.promise_count > 0 THEN 1000 ELSE 0
        by_dispute == IF a.dispute_count > 0 THEN 1500 ELSE 0
        days_since_contact == today - a.last_activity_date
        by_timing == IF days_since_contact > 14 THEN 1000
                     ELSE IF days_since_contact < 3 THEN -500
                     ELSE 0
    IN  IF a.total_activities = 0 THEN 5000
        ELSE Max(0, Min(10000, 5000 + by_answer + by_promise + by_dispute + by_timing))

\* final_score: the weighted sum, in ten-thousandths of a point (a score
\* in hundredths times a weight in hundredths)
FinalScore(c) ==
    LET S == OutstandingInvoices(c)
    IN  Plus(Times(AgingScore(S), 10 * AgingWeight),
             AmountScore(S) * AmountWeight
               + PaymentHistoryScore(c) * CustomerHistoryWeight
               + RelationshipScore(c) * RelationshipWeight
               + CollectionEffortScore(c) * CollectionEffortWeight)

\* _determine_risk_level
DetermineRiskLevel(score) ==
    IF AtLeast(score, 100 * HighRiskScore) THEN "HIGH"
    ELSE IF AtLeast(score, 100 * MediumRiskScore) THEN "MEDIUM"
    ELSE "LOW"

OldestInvoiceDays(S) ==
    CHOOSE d \in {invoices[i].days_past_due : i \in S} :
        \A i \in S : invoices[i].days_past_due <= d

\* _generate_recommendations
GenerateRecommendations(c, S, score, history, effort) ==
    LET total_outstanding == TotalOutstanding(S)
        oldest_days == OldestInvoiceDays(S)
        active_promises == Cardinality({pid \in DOMAIN promises :
                               /\ promises[pid].customer_id = c
                               /\ promises[pid].status = "ACTIVE"})
        If(b, text) == IF b THEN <<text>> ELSE <<>>
    IN  If(total_outstanding > 50000, "High-value account")
        \o If(total_outstanding <= 50000 /\ total_outstanding < 500, "Low-value account")
        \o If(oldest_days > 90, "Critical aging")
        \o If(oldest_days <= 90 /\ oldest_days > 60, "Serious aging")
        \o If(oldest_days <= 60 /\ oldest_days > 30, "Standard follow-up")
        \o If(history < 3000, "Poor payment history")
        \o If(history >= 3000 /\ history > 8000, "Good payment history")
        \o If(customers[c].customer_type = "VIP", "VIP customer")
        \o If(customers[c].customer_type = "HIGH_RISK", "High-risk customer")
        \o If(effort > 7000, "High collection effort required")
        \o If(MoreThan(score, 800000), "URGENT")
        \o If(~MoreThan(score, 800000) /\ MoreThan(score, 600000), "HIGH PRIORITY")
        \o If(~MoreThan(score, 600000) /\ LessThan(score, 300000), "LOW PRIORITY")
        \o If(c \in creditHold, "Customer on credit hold")
        \o If(active_promises > 0, "Active payment promises")

\* _determine_next_action
DetermineNextAction(score, oldest_days) ==
    IF MoreThan(score, 800000) \/ oldest_days > 120 THEN "ESCALATE_TO_LEGAL"
    ELSE IF MoreThan(score, 700000) \/ oldest_days > 90 THEN "MANAGER_INTERVENTION"
    ELSE IF MoreThan(score, 600000) \/ oldest_days > 60 THEN "IMMEDIATE_PHONE_CALL"
    ELSE IF MoreThan(score, 400000) \/ oldest_days > 30 THEN "SEND_FORMAL_NOTICE"
    ELSE "STANDARD_FOLLOW_UP"

\* calculate_customer_priority_score: the dict it returns, without the names,
\* the average age and the time of the call
CalculateCustomerPriorityScore(c) ==
    IF c \notin DOMAIN customers THEN [error |-> "Customer not found"]
    ELSE IF OutstandingInvoices(c) = {}
       THEN [customer_id |-> c, priority_score |-> 0, risk_level |-> "LOW",
             total_outstanding |-> 0, recommendations |-> <<"No outstanding balance">>]
       ELSE LET S == OutstandingInvoices(c)
                final_score == FinalScore(c)
            IN  [customer_id |-> c,
                 priority_score |-> Round(final_score, 100),
                 risk_level |-> DetermineRiskLevel(final_score),
                 total_outstanding |-> TotalOutstanding(S),
                 invoice_count |-> Cardinality(S),
                 oldest_invoice_days |-> OldestInvoiceDays(S),
                 component_scores |->
                     [amount_score |-> AmountScore(S),
                      aging_score |-> Round(Times(AgingScore(S), 10), 1),
                      history_score |-> PaymentHistoryScore(c),
                      relationship_score |-> RelationshipScore(c),
                      effort_score |-> CollectionEffortScore(c)],
                 recommendations |->
                     GenerateRecommendations(c, S, final_score, PaymentHistoryScore(c),
                                             CollectionEffortScore(c)),
                 next_action |-> DetermineNextAction(final_score, OldestInvoiceDays(S))]

\* one call of the scorer; it commits nothing
Score(c) ==
    /\ scored' = [arg |-> c, result |-> CalculateCustomerPriorityScore(c)]
    /\ UNCHANGED <<wfvars, pvars, customers, contactLog>>

(* ----- the ledgers the scorer is run on --------------------------------- *)

\* days past due as calculate_invoice_aging leaves them: as-of date minus due
\* date, negative while the invoice is not yet due
AgedDays == {-60, 45, 200}

\* a promise an earlier run closed as KEPT
KeptBefore(c, made) ==
    [BrokenBefore(c, made) EXCEPT !.status = "KEPT", !.actual_payment_date = made + 1,
                                  !.actual_payment_amount = 100]

ScoredCustomers ==
    { Customer(ty, limit, 30, avg, rel, sales, since) :
        ty \in {"REGULAR", "VIP", "HIGH_RISK"}, limit \in {25000}, avg \in {25, 35, 65},
        rel \in {3000, 9500}, sales \in {1000, 150000}, since \in {-100, -2000} }

ScoredContacts ==
    { NoContacts, Contacts(4, 3, 0, 1, -20), Contacts(2, 0, 1, 0, -1) }

SInit ==
    /\ \E d1 \in AgedDays, o1 \in {500, 150000}, c2 \in CustomerIds, d2 \in {-60, 45},
          o2 \in {0, 30000} :
          invoices = (1 :> Invoice(1, "OPEN", d1, o1)) @@ (2 :> Invoice(c2, "OPEN", d2, o2))
    /\ WIdle
    /\ today = 0
    /\ promises \in {<<>>, <<BrokenBefore(1, RecentDay)>>, <<KeptBefore(1, RecentDay)>>}
    /\ payments = EmptyBag
    /\ pactivities = EmptyBag
    /\ collection = [i \in InvoiceIds |-> "NONE"]
    /\ \E r \in ScoredCustomers : customers = (1 :> r) @@ (2 :> DefaultCustomer(2))
    /\ \E a \in ScoredContacts : contactLog = (1 :> a) @@ (2 :> NoContacts)
    /\ scored = NoScore

SNext == \E c \in CustomerIds \cup {UnknownCustomer} : Score(c)

ScoreSpec == SInit /\ [][SNext]_vars

(* ----- update_customer_scores ------------------------------------------- *)

\* the customer_ids the batch takes when none are given
CustomersWithBalance ==
    {invoices[i].customer_id : i \in {j \in DOMAIN invoices : invoices[j].outstanding_amount > 0}}

\* priority_level of a stored score
PriorityLevel(priority_score) ==
    IF priority_score > 8000 THEN "CRITICAL"
    ELSE IF priority_score > 6000 THEN "HIGH"
    ELSE IF priority_score > 3000 THEN "NORMAL"
    ELSE "LOW"

\* the ids of the batch whose score is computed without error
Stored(ids) == {c \in ids : "error" \notin DOMAIN CalculateCustomerPriorityScore(c)}

\* update_customer_scores: every score is computed from the rows of its own
\* customer, so the order of the loop does not matter; one commit at the end
UpdateCustomerScores(ids) ==
    /\ customers' =
          [c \in DOMAIN customers |->
              IF c \in Stored(ids)
                 THEN LET score_data == CalculateCustomerPriorityScore(c)
                      IN  [customers[c] EXCEPT
                             !.collection_priority = PriorityLevel(score_data.priority_score),
                             !.payment_reliability_score = Min(10000, score_data.priority_score)]
                 ELSE customers[c]]
    /\ invoices' =
          [i \in DOMAIN invoices |->
              IF invoices[i].customer_id \in Stored(ids) /\ invoices[i].outstanding_amount > 0
                 THEN [invoices[i] EXCEPT !.collection_priority_score =
                          CalculateCustomerPriorityScore(invoices[i].customer_id).priority_score]
                 ELSE invoices[i]]
    /\ UNCHANGED <<now, workflows, instances, execLog, activities, creditHold, hist, procs>>
    /\ UNCHANGED <<pvars, contactLog, scored>>

\* the batch over all customers with a balance, or over the ids it is given
UpdateScores ==
    \E ids \in {CustomersWithBalance, {2}, {1, UnknownCustomer}} : UpdateCustomerScores(ids)

\* ledgers of overdue invoices for the batch: customer 1 has a balance,
\* customer 2 has one or none
BInit ==
    /\ \E d1 \in {45, 200}, o1 \in {500, 150000}, o2 \in {0, 30000} :
          invoices = (1 :> Invoice(1, "OPEN", d1, o1)) @@ (2 :> Invoice(2, "OPEN", 45, o2))
    /\ WIdle
    /\ PIdle
    /\ \E avg \in {25, 35}, rel \in {3000, 9500} :
          customers = (1 :> Customer("REGULAR", 25000, 30, avg, rel, 150000, -100))
                        @@ (2 :> DefaultCustomer(2))
    /\ contactLog = [c \in CustomerIds |-> NoContacts]
    /\ scored = NoScore

BNext ==
    \/ SNext
    \/ UpdateScores

BatchSpec == BInit /\ [][BNext]_vars

(* ----- properties of the scorer ----------------------------------------- *)

InRange(x) == 0 <= x /\ x <= 10000

HasScore == scored.arg # 0 /\ "component_scores" \in DOMAIN scored.result

\* C19: whatever the ledger holds, a score the scorer returns lies in
\* [0,100] and so does each of its five component scores.
ScoreRange ==
    HasScore =>
        /\ InRange(scored.result.priority_score)
        /\ \A k \in DOMAIN scored.result.component_scores :
              InRange(scored.result.component_scores[k])

\* a customer whose only outstanding invoice is not yet due gets a negative score
NegativeScore ==
    /\ HasScore
    /\ scored.result.priority_score < 0
    /\ scored.result.component_scores.aging_score < 0

\* the ledger tables the scorer reads
ledger == <<invoices, customers, contactLog, promises, payments, pactivities, collection,
            instances, execLog, activities, creditHold>>

\* C20: for a customer with no invoice of outstanding amount > 0 the scorer
\* returns score 0, risk LOW and the one recommendation 'No outstanding
\* balance'; for an unknown customer it returns the error 'Customer not
\* found'; no call changes the ledger.
ScoreWithoutBalance ==
    /\ [](scored.arg # 0 =>
            IF scored.arg \notin DOMAIN customers
               THEN scored.result = [error |-> "Customer not found"]
               ELSE (\A i \in DOMAIN invoices :
                        invoices[i].customer_id = scored.arg
                            => invoices[i].outstanding_amount <= 0)
                    => /\ scored.result.priority_score = 0
                       /\ scored.result.risk_level = "LOW"
                       /\ scored.result.recommendations = <<"No outstanding balance">>)
    /\ [][scored' # scored => UNCHANGED ledger]_vars

ScoreWithoutBalanceWitness ==
    /\ scored.arg = 2
    /\ \E i \in DOMAIN invoices : invoices[i].customer_id = 2
    /\ \A i \in DOMAIN invoices : invoices[i].customer_id = 2
                                     => invoices[i].outstanding_amount = 0
    /\ \E i \in DOMAIN invoices : invoices[i].outstanding_amount > 0
    /\ scored.result.priority_score = 0

\* C21: the batch update writes nothing the score is computed from:
\* the composite score of every customer is the same after the batch as
\* before it.
ScoresDerivable ==
    [][UpdateScores =>
         \A c \in CustomerIds :
            CalculateCustomerPriorityScore(c)'.priority_score
               = CalculateCustomerPriorityScore(c).priority_score]_vars

\* the batch changed the stored reliability of a customer with a balance
ReliabilityOverwritten ==
    /\ 1 \in CustomersWithBalance
    /\ customers[1].payment_reliability_score = invoices[1].collection_priority_score
    /\ customers[1].payment_reliability_score \notin {3000, 9500}

\* C30: a Reconcile call sets every ACTIVE promise that is past the grace
\* period and has no linked invoice to BROKEN, whatever payments the
\* customer has made; such a promise becomes KEPT or PARTIALLY_KEPT only by
\* an UpdateStatus call with a positive actual amount.
UnlinkedPromiseBroken ==
    /\ [][Reconcile =>
            \A pid \in DOMAIN promises :
                (/\ promises[pid].status = "ACTIVE"
                 /\ promises[pid].promised_payment_date < today - GracePeriodDays
                 /\ promises[pid].invoice_id = NoInvoice)
                => promises'[pid].status = "BROKEN"]_vars
    /\ [][\A pid \in DOMAIN promises :
            (/\ promises[pid].invoice_id = NoInvoice
             /\ promises[pid].status # promises'[pid].status
             /\ promises'[pid].status \in {"KEPT", "PARTIALLY_KEPT"})
            => /\ promises'[pid].changed_by = "update"
               /\ promises'[pid].actual_payment_amount > 0]_vars

\* a promise without invoice was reconciled to BROKEN although the customer
\* paid 90 of the promised 100 on an invoice within the payment window
UnlinkedPromiseBrokenWitness ==
    \E pid \in DOMAIN promises :
        /\ promises[pid].invoice_id = NoInvoice
        /\ promises[pid].status = "BROKEN"
        /\ promises[pid].changed_by = "reconcile"
        /\ \E r \in BagToSet(payments) :
              /\ invoices[r.invoice_id].customer_id = promises[pid].customer_id
              /\ r.applied_amount * 10 >= promises[pid].promised_amount * 9
              /\ r.payment_date >= promises[pid].promised_payment_date
              /\ r.payment_date <= promises[pid].promised_payment_date + PaymentWindowDays

====
